---- MODULE Spec2Model ----
(***************************************************************************)
(* Model of ddtrace/ext/ci.py: the CI-provider tag extraction pipeline     *)
(* tags(env, cwd), its twelve provider extractors and the merge with git   *)
(* metadata and user-supplied git metadata.                                *)
(*                                                                         *)
(* A Python string is a sequence of one-character strings, so that the     *)
(* regular expressions, strip/split calls and format strings of the source *)
(* act on characters.  Python's None is the value None below, which is no  *)
(* string.  A dict is a function whose domain is the set of its keys; the  *)
(* keys are tag names or environment variable names and are never parsed,  *)
(* so they are plain TLA+ strings.                                         *)
(***************************************************************************)
EXTENDS Naturals, Sequences, FiniteSets, TLC

VARIABLES
    env,                      \* the environment mapping passed to tags()
    repo,                     \* what the git collaborator answers for cwd
    pc,                       \* position of the current call of tags()
    tags,                     \* local variable tags
    git_info,                 \* local variable git_info
    user_specified_git_info,  \* local variable user_specified_git_info
    result,                   \* the mapping returned by the current call
    error,                    \* the exception the current call raised
    previous                  \* outcome of the previous call of tags()

vars == <<env, repo, pc, tags, git_info, user_specified_git_info,
          result, error, previous>>

-----------------------------------------------------------------------------
(* Python values *)

\* Python's None: a one-element sequence whose element is no character.
None == <<"<None>">>

\* The empty dict.
Empty == [k \in {} |-> None]

\* bool(v) for v a string or None.
Truthy(v) == v # None /\ v # <<>>

\* a or b
Or(a, b) == IF Truthy(a) THEN a ELSE b

\* d.get(k)
Get(d, k) == IF k \in DOMAIN d THEN d[k] ELSE None

\* d.get(k, default)
GetDefault(d, k, default) == IF k \in DOMAIN d THEN d[k] ELSE default

\* d.update(e): the keys of e are set in d, the other keys of d are kept.
Update(d, e) ==
    [k \in DOMAIN d \cup DOMAIN e |-> IF k \in DOMAIN e THEN e[k] ELSE d[k]]

\* "{0}".format(v): None is rendered as the four characters None.
Fmt(v) == IF v = None THEN <<"N","o","n","e">> ELSE v

-----------------------------------------------------------------------------
(* Python string methods *)

\* s[i:i+len(p)] == p, with i counted from 1.
StartsWithAt(s, p, i) ==
    /\ i + Len(p) - 1 <= Len(s)
    /\ SubSeq(s, i, i + Len(p) - 1) = p

\* p in s
Contains(s, p) == \E i \in 1..(Len(s) + 1) : StartsWithAt(s, p, i)

\* s[i-1:], with i counted from 1.
From(s, i) == SubSeq(s, i, Len(s))

RECURSIVE ReplaceFrom(_, _, _, _)
ReplaceFrom(s, p, r, i) ==
    IF i > Len(s) THEN <<>>
    ELSE IF StartsWithAt(s, p, i) THEN r \o ReplaceFrom(s, p, r, i + Len(p))
    ELSE <<s[i]>> \o ReplaceFrom(s, p, r, i + 1)

\* re.sub(p, r, s) for a pattern p that is a non-empty literal: every
\* non-overlapping occurrence of p, leftmost first, becomes r.
ReplaceAll(s, p, r) == ReplaceFrom(s, p, r, 1)

RECURSIVE LStrip(_, _)
LStrip(s, chars) ==
    IF s # <<>> /\ Head(s) \in chars THEN LStrip(Tail(s), chars) ELSE s

RECURSIVE RStrip(_, _)
RStrip(s, chars) ==
    IF s # <<>> /\ s[Len(s)] \in chars
    THEN RStrip(SubSeq(s, 1, Len(s) - 1), chars)
    ELSE s

\* s.strip(chars)
Strip(s, chars) == RStrip(LStrip(s, chars), chars)

\* s.find(sep), counted from 1; 0 when sep does not occur.
Find(s, sep) ==
    IF Contains(s, sep)
    THEN CHOOSE i \in 1..Len(s) :
            /\ StartsWithAt(s, sep, i)
            /\ \A j \in 1..(i - 1) : ~StartsWithAt(s, sep, j)
    ELSE 0

RECURSIVE Split(_, _)
\* s.split(sep) for a non-empty sep: the list of the pieces between
\* the occurrences of sep.
Split(s, sep) ==
    LET i == Find(s, sep)
    IN  IF i = 0 THEN <<s>>
        ELSE <<SubSeq(s, 1, i - 1)>> \o Split(From(s, i + Len(sep)), sep)

RECURSIVE Join(_, _)
\* sep.join(parts)
Join(parts, sep) ==
    IF parts = <<>> THEN <<>>
    ELSE IF Len(parts) = 1 THEN parts[1]
    ELSE parts[1] \o sep \o Join(Tail(parts), sep)

-----------------------------------------------------------------------------
(* json.dumps(OrderedDict(pairs), separators=(",", ":")) *)

RECURSIVE JsonEscape(_)
\* The body of a JSON string: quote, backslash and newline are escaped
\* (the other characters used here are printable ASCII and stay).
JsonEscape(s) ==
    IF s = <<>> THEN <<>>
    ELSE (CASE Head(s) = "\"" -> <<"\\","\"">>
            [] Head(s) = "\\" -> <<"\\","\\">>
            [] Head(s) = "\n" -> <<"\\","n">>
            [] OTHER -> <<Head(s)>>) \o JsonEscape(Tail(s))

\* One value: null for None, a quoted string otherwise.
JsonValue(v) == IF v = None THEN <<"n","u","l","l">> ELSE <<"\"">> \o JsonEscape(v) \o <<"\"">>

RECURSIVE JsonItems(_)
JsonItems(pairs) ==
    IF pairs = <<>> THEN <<>>
    ELSE <<"\"">> \o pairs[1][1] \o <<"\"",":">> \o JsonValue(pairs[1][2])
         \o (IF Len(pairs) > 1 THEN <<",">> ELSE <<>>) \o JsonItems(Tail(pairs))

\* pairs is the ordered list of <<key, value>>; the keys keep that order.
JsonDumps(pairs) == <<"{">> \o JsonItems(pairs) \o <<"}">>

-----------------------------------------------------------------------------
(* Tag names *)

STAGE_NAME == "ci.stage.name"
JOB_NAME == "ci.job.name"
JOB_URL == "ci.job.url"
PIPELINE_ID == "ci.pipeline.id"
PIPELINE_NAME == "ci.pipeline.name"
PIPELINE_NUMBER == "ci.pipeline.number"
PIPELINE_URL == "ci.pipeline.url"
PROVIDER_NAME == "ci.provider.name"
WORKSPACE_PATH == "ci.workspace_path"
OS_ARCHITECTURE == "os.architecture"
OS_PLATFORM == "os.platform"
OS_VERSION == "os.version"
RUNTIME_NAME == "runtime.name"
RUNTIME_VERSION == "runtime.version"
_CI_ENV_VARS == "_dd.ci.env_vars"

\* The tag names of ddtrace.ext.git.
BRANCH == "git.branch"
COMMIT_SHA == "git.commit.sha"
REPOSITORY_URL == "git.repository_url"
TAG == "git.tag"
COMMIT_MESSAGE == "git.commit.message"
COMMIT_AUTHOR_NAME == "git.commit.author.name"
COMMIT_AUTHOR_EMAIL == "git.commit.author.email"
COMMIT_AUTHOR_DATE == "git.commit.author.date"
COMMIT_COMMITTER_NAME == "git.commit.committer.name"
COMMIT_COMMITTER_EMAIL == "git.commit.committer.email"

-----------------------------------------------------------------------------
(* ddtrace.ext.git helpers used by ci.py *)

\* The string without the prefix p, when it starts with p.
StripPrefix(s, p) == IF StartsWithAt(s, p, 1) THEN From(s, Len(p) + 1) ELSE s

\* git.normalize_ref: the ref prefixes refs/, refs/heads/, origin/ and tags/
\* are stripped from the front, in that order; None stays None.
normalize_ref(name) ==
    IF name = None THEN None
    ELSE LET a == IF StartsWithAt(name, <<"r","e","f","s","/","h","e","a","d","s","/">>, 1)
                  THEN StripPrefix(name, <<"r","e","f","s","/","h","e","a","d","s","/">>)
                  ELSE StripPrefix(name, <<"r","e","f","s","/">>)
             b == StripPrefix(a, <<"o","r","i","g","i","n","/">>)
         IN  StripPrefix(b, <<"t","a","g","s","/">>)

\* git.is_ref_a_tag: a truthy ref that names a tag.
is_ref_a_tag(ref) == IF Truthy(ref) THEN Contains(ref, <<"t","a","g","s","/">>) ELSE FALSE

-----------------------------------------------------------------------------
(* _filter_sensitive_info *)

\* The length of the scheme (https?://) matched at position i, 0 when none is.
SchemeAt(s, i) ==
    IF StartsWithAt(s, <<"h","t","t","p","s",":","/","/">>, i) THEN 8
    ELSE IF StartsWithAt(s, <<"h","t","t","p",":","/","/">>, i) THEN 7
    ELSE 0

\* The positions k of an "@" that [^/]*@ can end on when it starts at j:
\* no "/" lies between j and k.
AtSigns(s, j) ==
    {k \in j..Len(s) : s[k] = "@" /\ \A m \in j..(k - 1) : s[m] # "/"}

\* The largest element of a non-empty set of numbers.
Max(S) == CHOOSE k \in S : \A m \in S : m <= k

RECURSIVE SubUrlFrom(_, _)
\* _RE_URL.sub("\\1", s) from position i on: a match of
\* (https?://)[^/]*@ is replaced by its scheme; [^/]* is greedy, so the
\* match ends on the last "@" before the next "/".
SubUrlFrom(s, i) ==
    IF i > Len(s) THEN <<>>
    ELSE LET n == SchemeAt(s, i)
             ends == IF n = 0 THEN {} ELSE AtSigns(s, i + n)
         IN  IF ends # {}
             THEN SubSeq(s, i, i + n - 1) \o SubUrlFrom(s, Max(ends) + 1)
             ELSE <<s[i]>> \o SubUrlFrom(s, i + 1)

_filter_sensitive_info(url) == IF url # None THEN SubUrlFrom(url, 1) ELSE None

-----------------------------------------------------------------------------
(* os.path.expanduser, platform *)

\* $HOME of the process.
HomeDir == <<"/","h","o","m","e","/","c","i">>

\* os.path.expanduser(path) on POSIX: a leading "~" is replaced by $HOME
\* (without its trailing slashes); "~name" of a user the password database
\* does not know is left as it is, and no other user is known here.
expanduser(path) ==
    IF ~StartsWithAt(path, <<"~">>, 1) THEN path
    ELSE LET f == Find(Tail(path), <<"/">>)
             i == IF f = 0 THEN Len(path) + 1 ELSE f + 1
         IN  IF i = 2
             THEN LET p == RStrip(HomeDir, {"/"}) \o From(path, i)
                  IN  IF p = <<>> THEN <<"/">> ELSE p
             ELSE path

\* _get_runtime_and_os_metadata without its platform.release() entry.
_get_runtime_and_os_metadata_NoRelease ==
    (OS_ARCHITECTURE :> <<"x","8","6","_","6","4">>) @@ (OS_PLATFORM :> <<"L","i","n","u","x">>)
    @@ (RUNTIME_NAME :> <<"C","P","y","t","h","o","n">>)
    @@ (RUNTIME_VERSION :> <<"3",".","9">>)

\* _get_runtime_and_os_metadata(): the five facts the platform module
\* reports on the host.
_get_runtime_and_os_metadata ==
    (OS_ARCHITECTURE :> <<"x","8","6","_","6","4">>) @@ (OS_PLATFORM :> <<"L","i","n","u","x">>)
    @@ (OS_VERSION :> <<"6",".","1">>) @@ (RUNTIME_NAME :> <<"C","P","y","t","h","o","n">>)
    @@ (RUNTIME_VERSION :> <<"3",".","9">>)

\* The keys of _get_runtime_and_os_metadata().
RuntimeKeys == DOMAIN _get_runtime_and_os_metadata

-----------------------------------------------------------------------------
(* Outcomes of a call that may raise *)

Ok(v) == [exc |-> "none", value |-> v]
Raise(e) == [exc |-> e, value |-> Empty]

-----------------------------------------------------------------------------
(* re.sub(pattern, repl, s) with a pattern built from data *)

RECURSIVE Balanced(_, _)
\* The parentheses of p are balanced, read from nesting depth d.
Balanced(p, d) ==
    IF p = <<>> THEN d = 0
    ELSE IF Head(p) = "(" THEN Balanced(Tail(p), d + 1)
    ELSE IF Head(p) = ")" THEN d > 0 /\ Balanced(Tail(p), d - 1)
    ELSE Balanced(Tail(p), d)

\* re.compile(p) succeeds: for a pattern of ordinary characters and
\* parentheses, exactly when the parentheses are balanced.
RegexCompiles(p) == Balanced(p, 0)

\* The literal a compiled pattern of ordinary characters and balanced
\* parentheses matches: the groups only group.
RegexLiteral(p) == SelectSeq(p, LAMBDA c : c \notin {"(", ")"})

-----------------------------------------------------------------------------
(* The provider extractors.  Each answers Ok(mapping) or Raise(exception). *)

extract_appveyor(e) ==
    LET url == <<"h","t","t","p","s",":","/","/","c","i",".","a","p","p","v","e","y","o","r",".","c","o","m","/","p","r","o","j","e","c","t","/">> \o Fmt(Get(e, "APPVEYOR_REPO_NAME"))
               \o <<"/","b","u","i","l","d","s","/">> \o Fmt(Get(e, "APPVEYOR_BUILD_ID"))
        github == Get(e, "APPVEYOR_REPO_PROVIDER") = <<"g","i","t","h","u","b">>
        repository == IF github
                      THEN <<"h","t","t","p","s",":","/","/","g","i","t","h","u","b",".","c","o","m","/">> \o Fmt(Get(e, "APPVEYOR_REPO_NAME")) \o <<".","g","i","t">>
                      ELSE None
        commit == IF github THEN Get(e, "APPVEYOR_REPO_COMMIT") ELSE None
        branch == IF github
                  THEN Or(Get(e, "APPVEYOR_PULL_REQUEST_HEAD_REPO_BRANCH"),
                          Get(e, "APPVEYOR_REPO_BRANCH"))
                  ELSE None
        tag == IF github THEN Get(e, "APPVEYOR_REPO_TAG_NAME") ELSE None
        message == Get(e, "APPVEYOR_REPO_COMMIT_MESSAGE")
        extended == Get(e, "APPVEYOR_REPO_COMMIT_MESSAGE_EXTENDED")
        commit_message == IF Truthy(message) /\ Truthy(extended)
                          THEN message \o <<"\n">> \o extended
                          ELSE message
    IN  Ok((PROVIDER_NAME :> <<"a","p","p","v","e","y","o","r">>)
        @@ (REPOSITORY_URL :> repository)
        @@ (COMMIT_SHA :> commit)
        @@ (WORKSPACE_PATH :> Get(e, "APPVEYOR_BUILD_FOLDER"))
        @@ (PIPELINE_ID :> Get(e, "APPVEYOR_BUILD_ID"))
        @@ (PIPELINE_NAME :> Get(e, "APPVEYOR_REPO_NAME"))
        @@ (PIPELINE_NUMBER :> Get(e, "APPVEYOR_BUILD_NUMBER"))
        @@ (PIPELINE_URL :> url)
        @@ (JOB_URL :> url)
        @@ (BRANCH :> branch)
        @@ (TAG :> tag)
        @@ (COMMIT_MESSAGE :> commit_message)
        @@ (COMMIT_AUTHOR_NAME :> Get(e, "APPVEYOR_REPO_COMMIT_AUTHOR"))
        @@ (COMMIT_AUTHOR_EMAIL :> Get(e, "APPVEYOR_REPO_COMMIT_AUTHOR_EMAIL")))

extract_azure_pipelines(e) ==
    LET known == /\ Truthy(Get(e, "SYSTEM_TEAMFOUNDATIONSERVERURI"))
                 /\ Truthy(Get(e, "SYSTEM_TEAMPROJECTID"))
                 /\ Truthy(Get(e, "BUILD_BUILDID"))
        base_url == Fmt(Get(e, "SYSTEM_TEAMFOUNDATIONSERVERURI"))
                    \o Fmt(Get(e, "SYSTEM_TEAMPROJECTID"))
                    \o <<"/","_","b","u","i","l","d","/","r","e","s","u","l","t","s","?","b","u","i","l","d","I","d","=">> \o Fmt(Get(e, "BUILD_BUILDID"))
        pipeline_url == IF known THEN base_url ELSE None
        job_url == IF known
                   THEN base_url \o <<"&","v","i","e","w","=","l","o","g","s","&","j","=">> \o Fmt(Get(e, "SYSTEM_JOBID"))
                        \o <<"&","t","=">> \o Fmt(Get(e, "SYSTEM_TASKINSTANCEID"))
                   ELSE None
    IN  Ok((PROVIDER_NAME :> <<"a","z","u","r","e","p","i","p","e","l","i","n","e","s">>)
        @@ (WORKSPACE_PATH :> Get(e, "BUILD_SOURCESDIRECTORY"))
        @@ (PIPELINE_ID :> Get(e, "BUILD_BUILDID"))
        @@ (PIPELINE_NAME :> Get(e, "BUILD_DEFINITIONNAME"))
        @@ (PIPELINE_NUMBER :> Get(e, "BUILD_BUILDID"))
        @@ (PIPELINE_URL :> pipeline_url)
        @@ (JOB_URL :> job_url)
        @@ (REPOSITORY_URL :> Or(Get(e, "SYSTEM_PULLREQUEST_SOURCEREPOSITORYURI"),
                                 Get(e, "BUILD_REPOSITORY_URI")))
        @@ (COMMIT_SHA :> Or(Get(e, "SYSTEM_PULLREQUEST_SOURCECOMMITID"),
                             Get(e, "BUILD_SOURCEVERSION")))
        @@ (BRANCH :> Or(Or(Get(e, "SYSTEM_PULLREQUEST_SOURCEBRANCH"),
                            Get(e, "BUILD_SOURCEBRANCH")),
                         Get(e, "BUILD_SOURCEBRANCHNAME")))
        @@ (COMMIT_MESSAGE :> Get(e, "BUILD_SOURCEVERSIONMESSAGE"))
        @@ (COMMIT_AUTHOR_NAME :> Get(e, "BUILD_REQUESTEDFORID"))
        @@ (COMMIT_AUTHOR_EMAIL :> Get(e, "BUILD_REQUESTEDFOREMAIL"))
        @@ (STAGE_NAME :> Get(e, "SYSTEM_STAGEDISPLAYNAME"))
        @@ (JOB_NAME :> Get(e, "SYSTEM_JOBDISPLAYNAME"))
        @@ (_CI_ENV_VARS :> JsonDumps(<<
                <<<<"S","Y","S","T","E","M","_","T","E","A","M","P","R","O","J","E","C","T","I","D">>, Get(e, "SYSTEM_TEAMPROJECTID")>>,
                <<<<"B","U","I","L","D","_","B","U","I","L","D","I","D">>, Get(e, "BUILD_BUILDID")>>,
                <<<<"S","Y","S","T","E","M","_","J","O","B","I","D">>, Get(e, "SYSTEM_JOBID")>> >>)))

extract_bitbucket(e) ==
    LET url == <<"h","t","t","p","s",":","/","/","b","i","t","b","u","c","k","e","t",".","o","r","g","/">> \o Fmt(Get(e, "BITBUCKET_REPO_FULL_NAME"))
               \o <<"/","a","d","d","o","n","/","p","i","p","e","l","i","n","e","s","/","h","o","m","e","#","!","/","r","e","s","u","l","t","s","/">>
               \o Fmt(Get(e, "BITBUCKET_BUILD_NUMBER"))
    IN  Ok((BRANCH :> Get(e, "BITBUCKET_BRANCH"))
        @@ (COMMIT_SHA :> Get(e, "BITBUCKET_COMMIT"))
        @@ (REPOSITORY_URL :> Get(e, "BITBUCKET_GIT_SSH_ORIGIN"))
        @@ (TAG :> Get(e, "BITBUCKET_TAG"))
        @@ (JOB_URL :> url)
        @@ (PIPELINE_ID :> Or(Strip(GetDefault(e, "BITBUCKET_PIPELINE_UUID", <<>>),
                                    {"{", "}"}),
                              None))
        @@ (PIPELINE_NAME :> Get(e, "BITBUCKET_REPO_FULL_NAME"))
        @@ (PIPELINE_NUMBER :> Get(e, "BITBUCKET_BUILD_NUMBER"))
        @@ (PIPELINE_URL :> url)
        @@ (PROVIDER_NAME :> <<"b","i","t","b","u","c","k","e","t">>)
        @@ (WORKSPACE_PATH :> Get(e, "BITBUCKET_CLONE_DIR")))

extract_buildkite(e) ==
    Ok((BRANCH :> Get(e, "BUILDKITE_BRANCH"))
    @@ (COMMIT_SHA :> Get(e, "BUILDKITE_COMMIT"))
    @@ (REPOSITORY_URL :> Get(e, "BUILDKITE_REPO"))
    @@ (TAG :> Get(e, "BUILDKITE_TAG"))
    @@ (PIPELINE_ID :> Get(e, "BUILDKITE_BUILD_ID"))
    @@ (PIPELINE_NAME :> Get(e, "BUILDKITE_PIPELINE_SLUG"))
    @@ (PIPELINE_NUMBER :> Get(e, "BUILDKITE_BUILD_NUMBER"))
    @@ (PIPELINE_URL :> Get(e, "BUILDKITE_BUILD_URL"))
    @@ (JOB_URL :> Fmt(Get(e, "BUILDKITE_BUILD_URL")) \o <<"#">>
                   \o Fmt(Get(e, "BUILDKITE_JOB_ID")))
    @@ (PROVIDER_NAME :> <<"b","u","i","l","d","k","i","t","e">>)
    @@ (WORKSPACE_PATH :> Get(e, "BUILDKITE_BUILD_CHECKOUT_PATH"))
    @@ (COMMIT_MESSAGE :> Get(e, "BUILDKITE_MESSAGE"))
    @@ (COMMIT_AUTHOR_NAME :> Get(e, "BUILDKITE_BUILD_AUTHOR"))
    @@ (COMMIT_AUTHOR_EMAIL :> Get(e, "BUILDKITE_BUILD_AUTHOR_EMAIL"))
    @@ (COMMIT_COMMITTER_NAME :> Get(e, "BUILDKITE_BUILD_CREATOR"))
    @@ (COMMIT_COMMITTER_EMAIL :> Get(e, "BUILDKITE_BUILD_CREATOR_EMAIL"))
    @@ (_CI_ENV_VARS :> JsonDumps(<<
            <<<<"B","U","I","L","D","K","I","T","E","_","B","U","I","L","D","_","I","D">>, Get(e, "BUILDKITE_BUILD_ID")>>,
            <<<<"B","U","I","L","D","K","I","T","E","_","J","O","B","_","I","D">>, Get(e, "BUILDKITE_JOB_ID")>> >>)))

extract_circle_ci(e) ==
    Ok((BRANCH :> Get(e, "CIRCLE_BRANCH"))
    @@ (COMMIT_SHA :> Get(e, "CIRCLE_SHA1"))
    @@ (REPOSITORY_URL :> Get(e, "CIRCLE_REPOSITORY_URL"))
    @@ (TAG :> Get(e, "CIRCLE_TAG"))
    @@ (PIPELINE_ID :> Get(e, "CIRCLE_WORKFLOW_ID"))
    @@ (PIPELINE_NAME :> Get(e, "CIRCLE_PROJECT_REPONAME"))
    @@ (PIPELINE_NUMBER :> Get(e, "CIRCLE_BUILD_NUM"))
    @@ (PIPELINE_URL :> <<"h","t","t","p","s",":","/","/","a","p","p",".","c","i","r","c","l","e","c","i",".","c","o","m","/","p","i","p","e","l","i","n","e","s","/","w","o","r","k","f","l","o","w","s","/">>
                        \o Fmt(Get(e, "CIRCLE_WORKFLOW_ID")))
    @@ (JOB_URL :> Get(e, "CIRCLE_BUILD_URL"))
    @@ (JOB_NAME :> Get(e, "CIRCLE_JOB"))
    @@ (PROVIDER_NAME :> <<"c","i","r","c","l","e","c","i">>)
    @@ (WORKSPACE_PATH :> Get(e, "CIRCLE_WORKING_DIRECTORY"))
    @@ (_CI_ENV_VARS :> JsonDumps(<<
            <<<<"C","I","R","C","L","E","_","W","O","R","K","F","L","O","W","_","I","D">>, Get(e, "CIRCLE_WORKFLOW_ID")>>,
            <<<<"C","I","R","C","L","E","_","B","U","I","L","D","_","N","U","M">>, Get(e, "CIRCLE_BUILD_NUM")>> >>)))

\* extract_github_actions adding GITHUB_RUN_ATTEMPT to env_vars under
\* "if run_attempt:", the test the pipeline URL uses.
extract_github_actions_AttemptIfTruthy(e) ==
    LET runs_url == Fmt(Get(e, "GITHUB_SERVER_URL")) \o <<"/">>
                    \o Fmt(Get(e, "GITHUB_REPOSITORY")) \o <<"/","a","c","t","i","o","n","s","/","r","u","n","s","/">>
                    \o Fmt(Get(e, "GITHUB_RUN_ID"))
        run_attempt == Get(e, "GITHUB_RUN_ATTEMPT")
        pipeline_url == IF Truthy(run_attempt)
                        THEN Fmt(runs_url) \o <<"/","a","t","t","e","m","p","t","s","/">> \o Fmt(run_attempt)
                        ELSE runs_url
        env_vars == << <<<<"G","I","T","H","U","B","_","S","E","R","V","E","R","_","U","R","L">>, Get(e, "GITHUB_SERVER_URL")>>,
                       <<<<"G","I","T","H","U","B","_","R","E","P","O","S","I","T","O","R","Y">>, Get(e, "GITHUB_REPOSITORY")>>,
                       <<<<"G","I","T","H","U","B","_","R","U","N","_","I","D">>, Get(e, "GITHUB_RUN_ID")>> >>
                    \o (IF Truthy(run_attempt)
                        THEN << <<<<"G","I","T","H","U","B","_","R","U","N","_","A","T","T","E","M","P","T">>, e["GITHUB_RUN_ATTEMPT"]>> >>
                        ELSE <<>>)
    IN  Ok((BRANCH :> Or(Get(e, "GITHUB_HEAD_REF"), Get(e, "GITHUB_REF")))
        @@ (COMMIT_SHA :> Get(e, "GITHUB_SHA"))
        @@ (REPOSITORY_URL :> Fmt(Get(e, "GITHUB_SERVER_URL")) \o <<"/">>
                              \o Fmt(Get(e, "GITHUB_REPOSITORY")) \o <<".","g","i","t">>)
        @@ (JOB_URL :> Fmt(Get(e, "GITHUB_SERVER_URL")) \o <<"/">>
                       \o Fmt(Get(e, "GITHUB_REPOSITORY")) \o <<"/","c","o","m","m","i","t","/">>
                       \o Fmt(Get(e, "GITHUB_SHA")) \o <<"/","c","h","e","c","k","s">>)
        @@ (PIPELINE_ID :> Get(e, "GITHUB_RUN_ID"))
        @@ (PIPELINE_NAME :> Get(e, "GITHUB_WORKFLOW"))
        @@ (PIPELINE_NUMBER :> Get(e, "GITHUB_RUN_NUMBER"))
        @@ (PIPELINE_URL :> pipeline_url)
        @@ (JOB_NAME :> Get(e, "GITHUB_JOB"))
        @@ (PROVIDER_NAME :> <<"g","i","t","h","u","b">>)
        @@ (WORKSPACE_PATH :> Get(e, "GITHUB_WORKSPACE"))
        @@ (_CI_ENV_VARS :> JsonDumps(env_vars)))

extract_github_actions(e) ==
    LET runs_url == Fmt(Get(e, "GITHUB_SERVER_URL")) \o <<"/">>
                    \o Fmt(Get(e, "GITHUB_REPOSITORY")) \o <<"/","a","c","t","i","o","n","s","/","r","u","n","s","/">>
                    \o Fmt(Get(e, "GITHUB_RUN_ID"))
        run_attempt == Get(e, "GITHUB_RUN_ATTEMPT")
        pipeline_url == IF Truthy(run_attempt)
                        THEN Fmt(runs_url) \o <<"/","a","t","t","e","m","p","t","s","/">> \o Fmt(run_attempt)
                        ELSE runs_url
        env_vars == << <<<<"G","I","T","H","U","B","_","S","E","R","V","E","R","_","U","R","L">>, Get(e, "GITHUB_SERVER_URL")>>,
                       <<<<"G","I","T","H","U","B","_","R","E","P","O","S","I","T","O","R","Y">>, Get(e, "GITHUB_REPOSITORY")>>,
                       <<<<"G","I","T","H","U","B","_","R","U","N","_","I","D">>, Get(e, "GITHUB_RUN_ID")>> >>
                    \o (IF Get(e, "GITHUB_RUN_ATTEMPT") # None
                        THEN << <<<<"G","I","T","H","U","B","_","R","U","N","_","A","T","T","E","M","P","T">>, e["GITHUB_RUN_ATTEMPT"]>> >>
                        ELSE <<>>)
    IN  Ok((BRANCH :> Or(Get(e, "GITHUB_HEAD_REF"), Get(e, "GITHUB_REF")))
        @@ (COMMIT_SHA :> Get(e, "GITHUB_SHA"))
        @@ (REPOSITORY_URL :> Fmt(Get(e, "GITHUB_SERVER_URL")) \o <<"/">>
                              \o Fmt(Get(e, "GITHUB_REPOSITORY")) \o <<".","g","i","t">>)
        @@ (JOB_URL :> Fmt(Get(e, "GITHUB_SERVER_URL")) \o <<"/">>
                       \o Fmt(Get(e, "GITHUB_REPOSITORY")) \o <<"/","c","o","m","m","i","t","/">>
                       \o Fmt(Get(e, "GITHUB_SHA")) \o <<"/","c","h","e","c","k","s">>)
        @@ (PIPELINE_ID :> Get(e, "GITHUB_RUN_ID"))
        @@ (PIPELINE_NAME :> Get(e, "GITHUB_WORKFLOW"))
        @@ (PIPELINE_NUMBER :> Get(e, "GITHUB_RUN_NUMBER"))
        @@ (PIPELINE_URL :> pipeline_url)
        @@ (JOB_NAME :> Get(e, "GITHUB_JOB"))
        @@ (PROVIDER_NAME :> <<"g","i","t","h","u","b">>)
        @@ (WORKSPACE_PATH :> Get(e, "GITHUB_WORKSPACE"))
        @@ (_CI_ENV_VARS :> JsonDumps(env_vars)))

extract_gitlab(e) ==
    LET author == Get(e, "CI_COMMIT_AUTHOR")
        \* author.strip("> ").split(" <"), unpacked into exactly two names
        parts == IF Truthy(author) THEN Split(Strip(author, {">", " "}), <<" ","<">>)
                 ELSE <<None, None>>
        pipeline == Get(e, "CI_PIPELINE_URL")
        url == IF Truthy(pipeline)
               THEN ReplaceAll(pipeline, <<"/","-","/","p","i","p","e","l","i","n","e","s","/">>, <<"/","p","i","p","e","l","i","n","e","s","/">>)
               ELSE pipeline
    IN  IF Len(parts) # 2 THEN Raise("ValueError")
        ELSE Ok((BRANCH :> Get(e, "CI_COMMIT_REF_NAME"))
        @@ (COMMIT_SHA :> Get(e, "CI_COMMIT_SHA"))
        @@ (REPOSITORY_URL :> Get(e, "CI_REPOSITORY_URL"))
        @@ (TAG :> Get(e, "CI_COMMIT_TAG"))
        @@ (STAGE_NAME :> Get(e, "CI_JOB_STAGE"))
        @@ (JOB_NAME :> Get(e, "CI_JOB_NAME"))
        @@ (JOB_URL :> Get(e, "CI_JOB_URL"))
        @@ (PIPELINE_ID :> Get(e, "CI_PIPELINE_ID"))
        @@ (PIPELINE_NAME :> Get(e, "CI_PROJECT_PATH"))
        @@ (PIPELINE_NUMBER :> Get(e, "CI_PIPELINE_IID"))
        @@ (PIPELINE_URL :> url)
        @@ (PROVIDER_NAME :> <<"g","i","t","l","a","b">>)
        @@ (WORKSPACE_PATH :> Get(e, "CI_PROJECT_DIR"))
        @@ (COMMIT_MESSAGE :> Get(e, "CI_COMMIT_MESSAGE"))
        @@ (COMMIT_AUTHOR_NAME :> parts[1])
        @@ (COMMIT_AUTHOR_EMAIL :> parts[2])
        @@ (COMMIT_AUTHOR_DATE :> Get(e, "CI_COMMIT_TIMESTAMP"))
        @@ (_CI_ENV_VARS :> JsonDumps(<<
                <<<<"C","I","_","P","R","O","J","E","C","T","_","U","R","L">>, Get(e, "CI_PROJECT_URL")>>,
                <<<<"C","I","_","P","I","P","E","L","I","N","E","_","I","D">>, Get(e, "CI_PIPELINE_ID")>>,
                <<<<"C","I","_","J","O","B","_","I","D">>, Get(e, "CI_JOB_ID")>> >>)))

extract_jenkins(e) ==
    LET branch == GetDefault(e, "GIT_BRANCH", <<>>)
        job == Get(e, "JOB_NAME")
        pattern == <<"/">> \o Fmt(normalize_ref(branch))
        stripped == IF Truthy(job) /\ Truthy(branch)
                    THEN ReplaceAll(job, RegexLiteral(pattern), <<>>)
                    ELSE job
        name == IF Truthy(stripped)
                THEN Join(SelectSeq(Split(stripped, <<"/">>),
                                    LAMBDA v : Truthy(v) /\ ~Contains(v, <<"=">>)),
                          <<"/">>)
                ELSE stripped
    IN  IF Truthy(job) /\ Truthy(branch) /\ ~RegexCompiles(pattern)
        THEN Raise("re.error")
        ELSE Ok((BRANCH :> Get(e, "GIT_BRANCH"))
        @@ (COMMIT_SHA :> Get(e, "GIT_COMMIT"))
        @@ (REPOSITORY_URL :> GetDefault(e, "GIT_URL", Get(e, "GIT_URL_1")))
        @@ (PIPELINE_ID :> Get(e, "BUILD_TAG"))
        @@ (PIPELINE_NAME :> name)
        @@ (PIPELINE_NUMBER :> Get(e, "BUILD_NUMBER"))
        @@ (PIPELINE_URL :> Get(e, "BUILD_URL"))
        @@ (PROVIDER_NAME :> <<"j","e","n","k","i","n","s">>)
        @@ (WORKSPACE_PATH :> Get(e, "WORKSPACE"))
        @@ (_CI_ENV_VARS :> JsonDumps(<<
                <<<<"D","D","_","C","U","S","T","O","M","_","T","R","A","C","E","_","I","D">>, Get(e, "DD_CUSTOM_TRACE_ID")>> >>)))

extract_teamcity(e) ==
    Ok((COMMIT_SHA :> Get(e, "BUILD_VCS_NUMBER"))
    @@ (REPOSITORY_URL :> Get(e, "BUILD_VCS_URL"))
    @@ (PIPELINE_ID :> Get(e, "BUILD_ID"))
    @@ (PIPELINE_NUMBER :> Get(e, "BUILD_NUMBER"))
    @@ (PIPELINE_URL :> IF Truthy(Get(e, "SERVER_URL")) /\ Truthy(Get(e, "BUILD_ID"))
                        THEN Fmt(Get(e, "SERVER_URL")) \o <<"/","v","i","e","w","L","o","g",".","h","t","m","l","?","b","u","i","l","d","I","d","=">>
                             \o Fmt(Get(e, "BUILD_ID"))
                        ELSE None)
    @@ (PROVIDER_NAME :> <<"t","e","a","m","c","i","t","y">>)
    @@ (WORKSPACE_PATH :> Get(e, "BUILD_CHECKOUTDIR")))

extract_travis(e) ==
    Ok((BRANCH :> Or(Get(e, "TRAVIS_PULL_REQUEST_BRANCH"), Get(e, "TRAVIS_BRANCH")))
    @@ (COMMIT_SHA :> Get(e, "TRAVIS_COMMIT"))
    @@ (REPOSITORY_URL :> <<"h","t","t","p","s",":","/","/","g","i","t","h","u","b",".","c","o","m","/">> \o Fmt(Get(e, "TRAVIS_REPO_SLUG"))
                          \o <<".","g","i","t">>)
    @@ (TAG :> Get(e, "TRAVIS_TAG"))
    @@ (JOB_URL :> Get(e, "TRAVIS_JOB_WEB_URL"))
    @@ (PIPELINE_ID :> Get(e, "TRAVIS_BUILD_ID"))
    @@ (PIPELINE_NAME :> Get(e, "TRAVIS_REPO_SLUG"))
    @@ (PIPELINE_NUMBER :> Get(e, "TRAVIS_BUILD_NUMBER"))
    @@ (PIPELINE_URL :> Get(e, "TRAVIS_BUILD_WEB_URL"))
    @@ (PROVIDER_NAME :> <<"t","r","a","v","i","s","c","i">>)
    @@ (WORKSPACE_PATH :> Get(e, "TRAVIS_BUILD_DIR"))
    @@ (COMMIT_MESSAGE :> Get(e, "TRAVIS_COMMIT_MESSAGE")))

extract_bitrise(e) ==
    LET commit == Or(Get(e, "BITRISE_GIT_COMMIT"), Get(e, "GIT_CLONE_COMMIT_HASH"))
        branch == Or(Get(e, "BITRISEIO_GIT_BRANCH_DEST"), Get(e, "BITRISE_GIT_BRANCH"))
        message ==
            IF Truthy(Get(e, "BITRISE_GIT_MESSAGE")) THEN Get(e, "BITRISE_GIT_MESSAGE")
            ELSE IF \/ Truthy(Get(e, "GIT_CLONE_COMMIT_MESSAGE_SUBJECT"))
                    \/ Truthy(Get(e, "GIT_CLONE_COMMIT_MESSAGE_BODY"))
            THEN Fmt(Get(e, "GIT_CLONE_COMMIT_MESSAGE_SUBJECT")) \o <<":","\n">>
                 \o Fmt(Get(e, "GIT_CLONE_COMMIT_MESSAGE_BODY"))
            ELSE None
    IN  Ok((PROVIDER_NAME :> <<"b","i","t","r","i","s","e">>)
        @@ (PIPELINE_ID :> Get(e, "BITRISE_BUILD_SLUG"))
        @@ (PIPELINE_NAME :> Get(e, "BITRISE_TRIGGERED_WORKFLOW_ID"))
        @@ (PIPELINE_NUMBER :> Get(e, "BITRISE_BUILD_NUMBER"))
        @@ (PIPELINE_URL :> Get(e, "BITRISE_BUILD_URL"))
        @@ (WORKSPACE_PATH :> Get(e, "BITRISE_SOURCE_DIR"))
        @@ (REPOSITORY_URL :> Get(e, "GIT_REPOSITORY_URL"))
        @@ (COMMIT_SHA :> commit)
        @@ (BRANCH :> branch)
        @@ (TAG :> Get(e, "BITRISE_GIT_TAG"))
        @@ (COMMIT_MESSAGE :> message)
        @@ (COMMIT_AUTHOR_NAME :> Get(e, "GIT_CLONE_COMMIT_AUTHOR_NAME"))
        @@ (COMMIT_AUTHOR_EMAIL :> Get(e, "GIT_CLONE_COMMIT_AUTHOR_EMAIL"))
        @@ (COMMIT_COMMITTER_NAME :> Get(e, "GIT_CLONE_COMMIT_COMMITER_NAME"))
        @@ (COMMIT_COMMITTER_EMAIL :> Get(e, "GIT_CLONE_COMMIT_COMMITER_NAME")))

extract_buddy(e) ==
    Ok((PROVIDER_NAME :> <<"b","u","d","d","y">>)
    @@ (PIPELINE_ID :> Fmt(Get(e, "BUDDY_PIPELINE_ID")) \o <<"/">>
                       \o Fmt(Get(e, "BUDDY_EXECUTION_ID")))
    @@ (PIPELINE_NAME :> Get(e, "BUDDY_PIPELINE_NAME"))
    @@ (PIPELINE_NUMBER :> Get(e, "BUDDY_EXECUTION_ID"))
    @@ (PIPELINE_URL :> Get(e, "BUDDY_EXECUTION_URL"))
    @@ (REPOSITORY_URL :> Get(e, "BUDDY_SCM_URL"))
    @@ (COMMIT_SHA :> Get(e, "BUDDY_EXECUTION_REVISION"))
    @@ (BRANCH :> Get(e, "BUDDY_EXECUTION_BRANCH"))
    @@ (TAG :> Get(e, "BUDDY_EXECUTION_TAG"))
    @@ (COMMIT_MESSAGE :> Get(e, "BUDDY_EXECUTION_REVISION_MESSAGE"))
    @@ (COMMIT_COMMITTER_NAME :> Get(e, "BUDDY_EXECUTION_REVISION_COMMITTER_NAME"))
    @@ (COMMIT_COMMITTER_EMAIL :> Get(e, "BUDDY_EXECUTION_REVISION_COMMITTER_EMAIL")))

\* PROVIDERS: the sentinel keys, in registry order; entry i is bound to
\* the extractor Extract(i, env).
PROVIDERS ==
    <<"APPVEYOR", "TF_BUILD", "BITBUCKET_COMMIT", "BUILDKITE", "CIRCLECI",
      "GITHUB_SHA", "GITLAB_CI", "JENKINS_URL", "TEAMCITY_VERSION", "TRAVIS",
      "BITRISE_BUILD_SLUG", "BUDDY">>

\* The extractor bound to entry i of PROVIDERS, applied to e.
Extract(i, e) ==
    CASE i = 1 -> extract_appveyor(e)
      [] i = 2 -> extract_azure_pipelines(e)
      [] i = 3 -> extract_bitbucket(e)
      [] i = 4 -> extract_buildkite(e)
      [] i = 5 -> extract_circle_ci(e)
      [] i = 6 -> extract_github_actions(e)
      [] i = 7 -> extract_gitlab(e)
      [] i = 8 -> extract_jenkins(e)
      [] i = 9 -> extract_teamcity(e)
      [] i = 10 -> extract_travis(e)
      [] i = 11 -> extract_bitrise(e)
      [] i = 12 -> extract_buddy(e)

-----------------------------------------------------------------------------
(* The git collaborator, as tags() sees it *)

\* git.extract_user_git_metadata(env): the user's git metadata, read from
\* the override variables of the environment; a tag whose override
\* variable is not set is not in the mapping.
UserOverrides ==
    [DD_GIT_REPOSITORY_URL |-> REPOSITORY_URL, DD_GIT_BRANCH |-> BRANCH,
     DD_GIT_TAG |-> TAG, DD_GIT_COMMIT_SHA |-> COMMIT_SHA]

extract_user_git_metadata(e) ==
    LET set == {v \in DOMAIN UserOverrides : v \in DOMAIN e}
    IN  [k \in {UserOverrides[v] : v \in set} |->
            e[CHOOSE v \in set : UserOverrides[v] = k]]

\* git.extract_git_metadata(cwd): the mapping read from the repository at
\* cwd, or the exception raised instead.
extract_git_metadata(r) == IF r.meta_exc = "none" THEN Ok(r.meta) ELSE Raise(r.meta_exc)

\* git.extract_workspace_path(cwd): the path, or the exception raised instead.
extract_workspace_path(r) == IF r.ws_exc = "none" THEN Ok(r.ws) ELSE Raise(r.ws_exc)

-----------------------------------------------------------------------------
(* tags(env, cwd) *)

\* The entries of PROVIDERS whose sentinel key is a key of e.
Present(e) == {i \in 1..Len(PROVIDERS) : PROVIDERS[i] \in DOMAIN e}

\* Selected without the break: the last sentinel present wins.
SelectedLast(e) ==
    IF Present(e) = {} THEN 0
    ELSE CHOOSE i \in Present(e) : \A j \in Present(e) : j <= i

\* for key, extract in PROVIDERS: if key in env: ... break
\* The first such entry, 0 when there is none.
Selected(e) ==
    IF Present(e) = {} THEN 0
    ELSE CHOOSE i \in Present(e) : \A j \in Present(e) : i <= j

\* tags = {} ... tags = extract(env)
ProviderTags(e) == IF Selected(e) = 0 THEN Ok(Empty) ELSE Extract(Selected(e), e)

\* git_info after lines 101-109: the workspace path is added unless
\* extract_workspace_path raised GitNotFoundError or ValueError (logged).
GitInfo(r) ==
    LET ws == extract_workspace_path(r)
    IN  IF ws.exc = "none"
        THEN Update(extract_git_metadata(r).value, WORKSPACE_PATH :> ws.value)
        ELSE extract_git_metadata(r).value

\* MergeGit testing "k not in tags" instead of "not tags.get(k)": a None or
\* empty provider value is kept.
MergeGitMissingOnly(t, g) ==
    Update(t, [k \in {x \in DOMAIN g : x \notin DOMAIN t} |-> g[k]])

\* tags.update({k: v for k, v in git_info.items() if not tags.get(k)})
MergeGit(t, g) ==
    Update(t, [k \in {x \in DOMAIN g : ~Truthy(Get(t, x))} |-> g[k]])

\* MergeUser filling only what is still falsy, as the git merge does.
MergeUserFillOnly(t, u) ==
    Update(t, [k \in {x \in DOMAIN u : Truthy(u[x]) /\ ~Truthy(Get(t, x))} |-> u[k]])

\* tags.update({k: v for k, v in user_specified_git_info.items() if v})
MergeUser(t, u) ==
    Update(t, [k \in {x \in DOMAIN u : Truthy(u[x])} |-> u[k]])

\* del t[key]
Delete(t, key) == [k \in DOMAIN t \ {key} |-> t[k]]

\* Disambiguate with the branch's value replacing a tag that is already set.
DisambiguateBranchWins(t) ==
    IF is_ref_a_tag(Get(t, BRANCH))
    THEN Delete(Update(t, TAG :> normalize_ref(Get(t, BRANCH))), BRANCH)
    ELSE Update(t, (BRANCH :> normalize_ref(Get(t, BRANCH)))
                   @@ (TAG :> normalize_ref(Get(t, TAG))))

\* Disambiguate without "del tags[git.BRANCH]".
DisambiguateKeepBranch(t) ==
    IF is_ref_a_tag(Get(t, BRANCH))
    THEN Update(t, TAG :> (IF ~Truthy(Get(t, TAG))
                           THEN normalize_ref(Get(t, BRANCH))
                           ELSE normalize_ref(Get(t, TAG))))
    ELSE Update(t, (BRANCH :> normalize_ref(Get(t, BRANCH)))
                   @@ (TAG :> normalize_ref(Get(t, TAG))))

\* Lines 120-129: a branch that is a tag ref becomes the tag.
Disambiguate(t) ==
    IF is_ref_a_tag(Get(t, BRANCH))
    THEN Delete(Update(t, TAG :> (IF ~Truthy(Get(t, TAG))
                                  THEN normalize_ref(Get(t, BRANCH))
                                  ELSE normalize_ref(Get(t, TAG)))),
                BRANCH)
    ELSE Update(t, (BRANCH :> normalize_ref(Get(t, BRANCH)))
                   @@ (TAG :> normalize_ref(Get(t, TAG))))

\* tags[git.REPOSITORY_URL] = _filter_sensitive_info(tags.get(git.REPOSITORY_URL))
Sanitize(t) ==
    Update(t, REPOSITORY_URL :> _filter_sensitive_info(Get(t, REPOSITORY_URL)))

\* Lines 133-135.
ExpandWorkspace(t) ==
    IF Truthy(Get(t, WORKSPACE_PATH))
    THEN Update(t, WORKSPACE_PATH :> expanduser(t[WORKSPACE_PATH]))
    ELSE t

\* DropNone testing "if v != ''" instead of "if v is not None".
DropEmpty(t) == [k \in {x \in DOMAIN t : t[x] # <<>>} |-> t[k]]

\* {k: v for k, v in tags.items() if v is not None}
DropNone(t) == [k \in {x \in DOMAIN t : t[x] # None} |-> t[k]]

\* Finish without tags.update(_get_runtime_and_os_metadata()).
FinishNoRuntime(t) == [k \in {x \in DOMAIN t : t[x] # None} |-> t[k]]

\* Lines 137-139.
Finish(t) == DropNone(Update(t, _get_runtime_and_os_metadata))

NoError == [exc |-> "none", at |-> "none"]
NoCall == [pc |-> "none", result |-> Empty, error |-> NoError]

\* Lines 94-99: the extractor of the first sentinel present runs; what it
\* raises leaves tags().
SelectProvider ==
    /\ pc = "call"
    /\ LET out == ProviderTags(env)
       IN  IF out.exc = "none"
           THEN /\ tags' = out.value
                /\ pc' = "extracted"
                /\ error' = error
           ELSE /\ tags' = tags
                /\ pc' = "raised"
                /\ error' = [exc |-> out.exc, at |-> "extractor"]
    /\ UNCHANGED <<env, repo, git_info, user_specified_git_info, result, previous>>

\* Lines 101-109: extract_git_metadata is called outside the try block, so
\* what it raises leaves tags(); what extract_workspace_path raises is logged.
GitMetadata ==
    /\ pc = "extracted"
    /\ LET out == extract_git_metadata(repo)
       IN  IF out.exc = "none"
           THEN /\ git_info' = GitInfo(repo)
                /\ pc' = "collected"
                /\ error' = error
           ELSE /\ git_info' = git_info
                /\ pc' = "raised"
                /\ error' = [exc |-> out.exc, at |-> "extract_git_metadata"]
    /\ UNCHANGED <<env, repo, tags, user_specified_git_info, result, previous>>

\* Merge with extract_user_git_metadata taking the override variables out
\* of env (env.pop) instead of reading them.
MergePopOverrides ==
    /\ pc = "collected"
    /\ user_specified_git_info' = extract_user_git_metadata(env)
    /\ tags' = MergeUser(MergeGit(tags, git_info), extract_user_git_metadata(env))
    /\ env' = [v \in DOMAIN env \ DOMAIN UserOverrides |-> env[v]]
    /\ pc' = "merged"
    /\ UNCHANGED <<repo, git_info, result, error, previous>>

\* Lines 111-118: git metadata fills what the provider left falsy, then the
\* user's truthy values replace everything.
Merge ==
    /\ pc = "collected"
    /\ user_specified_git_info' = extract_user_git_metadata(env)
    /\ tags' = MergeUser(MergeGit(tags, git_info), extract_user_git_metadata(env))
    /\ pc' = "merged"
    /\ UNCHANGED <<env, repo, git_info, result, error, previous>>

\* Lines 120-135: branch/tag disambiguation, URL sanitization, workspace path.
Normalize ==
    /\ pc = "merged"
    /\ tags' = ExpandWorkspace(Sanitize(Disambiguate(tags)))
    /\ pc' = "normalized"
    /\ UNCHANGED <<env, repo, git_info, user_specified_git_info, result, error,
                   previous>>

\* Lines 137-139.
Return ==
    /\ pc = "normalized"
    /\ result' = Finish(tags)
    /\ pc' = "returned"
    /\ UNCHANGED <<env, repo, tags, git_info, user_specified_git_info, error,
                   previous>>

\* The caller calls tags() again with the same env and cwd: the locals of
\* the finished call are gone, its outcome is what the caller holds.
CallAgain ==
    /\ pc \in {"returned", "raised"}
    /\ previous' = [pc |-> pc, result |-> result, error |-> error]
    /\ pc' = "call"
    /\ tags' = Empty
    /\ git_info' = Empty
    /\ user_specified_git_info' = Empty
    /\ result' = Empty
    /\ error' = NoError
    /\ UNCHANGED <<env, repo>>

Next ==
    \/ SelectProvider
    \/ GitMetadata
    \/ Merge
    \/ Normalize
    \/ Return
    \/ CallAgain

-----------------------------------------------------------------------------
(* The environments and repositories tags() is called with *)

\* At most this many variables besides the sentinel are set in a provider's
\* environment.
MaxEnvVars == 2

\* At most this many sentinel keys are set together.
MaxSentinels == 2

\* The environment variables each extractor reads besides its sentinel, in
\* registry order.
ProviderVars ==
    << {"APPVEYOR_REPO_NAME", "APPVEYOR_BUILD_ID", "APPVEYOR_REPO_PROVIDER",
        "APPVEYOR_REPO_COMMIT", "APPVEYOR_PULL_REQUEST_HEAD_REPO_BRANCH",
        "APPVEYOR_REPO_BRANCH", "APPVEYOR_REPO_TAG_NAME",
        "APPVEYOR_REPO_COMMIT_MESSAGE", "APPVEYOR_REPO_COMMIT_MESSAGE_EXTENDED",
        "APPVEYOR_BUILD_FOLDER", "APPVEYOR_BUILD_NUMBER",
        "APPVEYOR_REPO_COMMIT_AUTHOR", "APPVEYOR_REPO_COMMIT_AUTHOR_EMAIL"},
       {"SYSTEM_TEAMFOUNDATIONSERVERURI", "SYSTEM_TEAMPROJECTID", "BUILD_BUILDID",
        "SYSTEM_JOBID", "SYSTEM_TASKINSTANCEID", "BUILD_SOURCESDIRECTORY",
        "BUILD_DEFINITIONNAME", "SYSTEM_PULLREQUEST_SOURCEREPOSITORYURI",
        "BUILD_REPOSITORY_URI", "SYSTEM_PULLREQUEST_SOURCECOMMITID",
        "BUILD_SOURCEVERSION", "SYSTEM_PULLREQUEST_SOURCEBRANCH",
        "BUILD_SOURCEBRANCH", "BUILD_SOURCEBRANCHNAME",
        "BUILD_SOURCEVERSIONMESSAGE", "BUILD_REQUESTEDFORID",
        "BUILD_REQUESTEDFOREMAIL", "SYSTEM_STAGEDISPLAYNAME",
        "SYSTEM_JOBDISPLAYNAME"},
       {"BITBUCKET_REPO_FULL_NAME", "BITBUCKET_BUILD_NUMBER", "BITBUCKET_BRANCH",
        "BITBUCKET_GIT_SSH_ORIGIN", "BITBUCKET_TAG", "BITBUCKET_PIPELINE_UUID",
        "BITBUCKET_CLONE_DIR"},
       {"BUILDKITE_BRANCH", "BUILDKITE_COMMIT", "BUILDKITE_REPO", "BUILDKITE_TAG",
        "BUILDKITE_BUILD_ID", "BUILDKITE_PIPELINE_SLUG", "BUILDKITE_BUILD_NUMBER",
        "BUILDKITE_BUILD_URL", "BUILDKITE_JOB_ID", "BUILDKITE_BUILD_CHECKOUT_PATH",
        "BUILDKITE_MESSAGE", "BUILDKITE_BUILD_AUTHOR",
        "BUILDKITE_BUILD_AUTHOR_EMAIL", "BUILDKITE_BUILD_CREATOR",
        "BUILDKITE_BUILD_CREATOR_EMAIL"},
       {"CIRCLE_BRANCH", "CIRCLE_SHA1", "CIRCLE_REPOSITORY_URL", "CIRCLE_TAG",
        "CIRCLE_WORKFLOW_ID", "CIRCLE_PROJECT_REPONAME", "CIRCLE_BUILD_NUM",
        "CIRCLE_BUILD_URL", "CIRCLE_JOB", "CIRCLE_WORKING_DIRECTORY"},
       {"GITHUB_SERVER_URL", "GITHUB_REPOSITORY", "GITHUB_RUN_ID",
        "GITHUB_RUN_ATTEMPT", "GITHUB_HEAD_REF", "GITHUB_REF", "GITHUB_WORKFLOW",
        "GITHUB_RUN_NUMBER", "GITHUB_JOB", "GITHUB_WORKSPACE"},
       {"CI_COMMIT_AUTHOR", "CI_COMMIT_TIMESTAMP", "CI_PIPELINE_URL",
        "CI_COMMIT_REF_NAME", "CI_COMMIT_SHA", "CI_REPOSITORY_URL", "CI_COMMIT_TAG",
        "CI_JOB_STAGE", "CI_JOB_NAME", "CI_JOB_URL", "CI_PIPELINE_ID",
        "CI_PROJECT_PATH", "CI_PIPELINE_IID", "CI_PROJECT_DIR", "CI_COMMIT_MESSAGE",
        "CI_PROJECT_URL", "CI_JOB_ID"},
       {"GIT_BRANCH", "JOB_NAME", "GIT_COMMIT", "GIT_URL", "GIT_URL_1", "BUILD_TAG",
        "BUILD_NUMBER", "BUILD_URL", "WORKSPACE", "DD_CUSTOM_TRACE_ID"},
       {"BUILD_VCS_NUMBER", "BUILD_VCS_URL", "BUILD_ID", "BUILD_NUMBER",
        "SERVER_URL", "BUILD_CHECKOUTDIR"},
       {"TRAVIS_PULL_REQUEST_BRANCH", "TRAVIS_BRANCH", "TRAVIS_COMMIT",
        "TRAVIS_REPO_SLUG", "TRAVIS_TAG", "TRAVIS_JOB_WEB_URL", "TRAVIS_BUILD_ID",
        "TRAVIS_BUILD_NUMBER", "TRAVIS_BUILD_WEB_URL", "TRAVIS_BUILD_DIR",
        "TRAVIS_COMMIT_MESSAGE"},
       {"BITRISE_GIT_COMMIT", "GIT_CLONE_COMMIT_HASH", "BITRISEIO_GIT_BRANCH_DEST",
        "BITRISE_GIT_BRANCH", "BITRISE_GIT_MESSAGE",
        "GIT_CLONE_COMMIT_MESSAGE_SUBJECT", "GIT_CLONE_COMMIT_MESSAGE_BODY",
        "BITRISE_TRIGGERED_WORKFLOW_ID", "BITRISE_BUILD_NUMBER", "BITRISE_BUILD_URL",
        "BITRISE_SOURCE_DIR", "GIT_REPOSITORY_URL", "BITRISE_GIT_TAG",
        "GIT_CLONE_COMMIT_AUTHOR_NAME", "GIT_CLONE_COMMIT_AUTHOR_EMAIL",
        "GIT_CLONE_COMMIT_COMMITER_NAME"},
       {"BUDDY_PIPELINE_ID", "BUDDY_EXECUTION_ID", "BUDDY_PIPELINE_NAME",
        "BUDDY_EXECUTION_URL", "BUDDY_SCM_URL", "BUDDY_EXECUTION_REVISION",
        "BUDDY_EXECUTION_BRANCH", "BUDDY_EXECUTION_TAG",
        "BUDDY_EXECUTION_REVISION_MESSAGE",
        "BUDDY_EXECUTION_REVISION_COMMITTER_NAME",
        "BUDDY_EXECUTION_REVISION_COMMITTER_EMAIL"} >>

\* The values a variable takes: a set one first, then the empty string, and
\* for the variables the extractors parse, values that exercise the parsing.
Values(v) ==
    CASE v = "APPVEYOR_REPO_PROVIDER" -> <<<<"g","i","t","h","u","b">>, <<"g","i","t","l","a","b">>>>
      [] v = "CI_COMMIT_AUTHOR" -> <<<<"A","n","n"," ","<","a","@","b",".","c",">">>, <<"A","n","n">>, <<>> >>
      [] v = "GIT_BRANCH" -> <<<<"o","r","i","g","i","n","/","m","a","i","n">>, <<"f","i","x","(","1">>, <<>> >>
      [] v = "JOB_NAME" -> <<<<"j","o","b","/","m","a","i","n","/","k","=","v">>, <<>> >>
      [] v = "BITBUCKET_PIPELINE_UUID" -> <<<<"{","a","b","}">>, <<"{","}">>>>
      [] v = "CI_PIPELINE_URL" -> <<<<"h","t","t","p","s",":","/","/","g","/","-","/","p","i","p","e","l","i","n","e","s","/","1">>, <<>> >>
      [] v = "GITHUB_RUN_ATTEMPT" -> <<<<"2">>, <<>> >>
      [] OTHER -> <<<<"x">>, <<>> >>

\* The subsets of S with at most n elements.
RECURSIVE AtMost(_, _)
AtMost(S, n) ==
    IF n = 0 THEN {{}}
    ELSE AtMost(S, n - 1) \cup {T \cup {x} : T \in AtMost(S, n - 1), x \in S}

\* The environments over the variables S, each with one of its values.
Environments(S) ==
    {[v \in S |-> Values(v)[c[v]]] :
        c \in {d \in [S -> 1..3] : \A v \in S : d[v] <= Len(Values(v))}}

\* A machine without git: no metadata, and the workspace path lookup
\* raises.
NoGit == [meta_exc |-> "none", meta |-> Empty,
          ws_exc |-> "GitNotFoundError", ws |-> <<>>]

\* One provider's sentinel, set, and at most MaxEnvVars of its variables.
ProviderWorlds ==
    UNION {{<<(PROVIDERS[i] :> Values(PROVIDERS[i])[1]) @@ e, NoGit>> :
                e \in UNION {Environments(S) :
                                S \in AtMost(ProviderVars[i], MaxEnvVars)}} :
           i \in 1..Len(PROVIDERS)}

\* At most MaxSentinels sentinel keys, each set or empty, and nothing else.
SelectWorlds ==
    UNION {{<<e, NoGit>> : e \in [S -> {<<"t","r","u","e">>, <<>>}]} :
           S \in AtMost({PROVIDERS[i] : i \in 1..Len(PROVIDERS)}, MaxSentinels)}

\* What one source (provider, git or user) says about the repository: at
\* most one of the branch, the tag, the repository URL and one more field
\* (whose values are extra), or the branch and the tag together.
Said(extra) ==
    LET branches == {<<"r","e","f","s","/","h","e","a","d","s","/","m","a","i","n">>, <<"r","e","f","s","/","t","a","g","s","/","v","1",".","0">>, <<>>}
        tagnames == {<<"r","e","f","s","/","t","a","g","s","/","v","2",".","0">>, <<>>}
        urls == {<<"h","t","t","p","s",":","/","/","u","s","e","r",":","p","a","s","s","@","h","o","s","t","/","p","a","t","h">>, <<"s","s","h",":","/","/","u","s","e","r",":","p","a","s","s","@","h","o","s","t","/","p","a","t","h">>, <<>>}
    IN  {Empty}
        \cup {"branch" :> b : b \in branches}
        \cup {"tag" :> t : t \in tagnames}
        \cup {"url" :> u : u \in urls}
        \cup {"extra" :> x : x \in extra}
        \cup {("branch" :> b) @@ ("tag" :> t) : b \in branches, t \in tagnames}

\* The mapping m with each field f named names[f]; the fields names does
\* not know are dropped.
Named(m, names) ==
    LET known == DOMAIN m \cap DOMAIN names
    IN  [k \in {names[f] : f \in known} |->
            m[CHOOSE f \in known : names[f] = k]]

\* The environments of the merge: no provider, Buildkite or GitHub Actions
\* with what the provider says, and what the user's override variables say.
MergeEnvironments ==
    LET paths == {<<"~","/","b","u","i","l","d">>, <<>>}
        buildkite == [branch |-> "BUILDKITE_BRANCH", tag |-> "BUILDKITE_TAG",
                      url |-> "BUILDKITE_REPO",
                      extra |-> "BUILDKITE_BUILD_CHECKOUT_PATH"]
        github == [branch |-> "GITHUB_REF", extra |-> "GITHUB_WORKSPACE"]
        overrides == [branch |-> "DD_GIT_BRANCH", tag |-> "DD_GIT_TAG",
                      url |-> "DD_GIT_REPOSITORY_URL",
                      extra |-> "DD_GIT_COMMIT_SHA"]
        provider == {Empty}
            \cup {("BUILDKITE" :> <<"t","r","u","e">>) @@ Named(m, buildkite) : m \in Said(paths)}
            \cup {("GITHUB_SHA" :> <<"a","b","c">>) @@ Named(m, github) : m \in Said(paths)}
    IN  {p @@ Named(m, overrides) : p \in provider, m \in Said({<<"f","e","d">>, <<>>})}

\* The repositories of the merge: extract_git_metadata raises or answers
\* what git says; extract_workspace_path raises or answers a path.
MergeRepositories ==
    LET fields == [branch |-> BRANCH, tag |-> TAG, url |-> REPOSITORY_URL,
                   extra |-> COMMIT_SHA]
        metas == {[meta_exc |-> "none", meta |-> Named(m, fields)] :
                     m \in Said({<<"0","f","f">>, None})}
                 \cup {[meta_exc |-> x, meta |-> Empty] :
                          x \in {"GitNotFoundError", "ValueError"}}
        paths == {[ws_exc |-> "none", ws |-> <<"~","/","r","e","p","o">>]}
                 \cup {[ws_exc |-> x, ws |-> <<>>] :
                          x \in {"GitNotFoundError", "ValueError"}}
    IN  {m @@ w : m \in metas, w \in paths}

MergeWorlds == MergeEnvironments \X MergeRepositories

Init ==
    /\ \E w \in ProviderWorlds \cup SelectWorlds \cup MergeWorlds :
          /\ env = w[1]
          /\ repo = w[2]
    /\ pc = "call"
    /\ tags = Empty
    /\ git_info = Empty
    /\ user_specified_git_info = Empty
    /\ result = Empty
    /\ error = NoError
    /\ previous = NoCall

Spec == Init /\ [][Next]_vars

-----------------------------------------------------------------------------
(* Properties of tags() *)

\* The tags before lines 120-135 normalize them, from what each source said.
Merged ==
    MergeUser(MergeGit(ProviderTags(env).value, git_info), user_specified_git_info)

\* The keys the user gave a truthy value.
UserKeys == {k \in DOMAIN user_specified_git_info : Truthy(user_specified_git_info[k])}

\* C1 as written: every truthy user value is in the returned mapping
\* verbatim, under its key.
C1_UserValueVerbatim ==
    pc = "returned" =>
        \A k \in UserKeys : k \in DOMAIN result /\ result[k] = user_specified_git_info[k]

\* C1, amended: a truthy user value replaces whatever the provider and git
\* said for its key (after line 118 the tag is the user's value, verbatim),
\* and the returned mapping carries that value as lines 120-135 normalize
\* it: the branch and the tag ref-normalized (the branch dropped when it is
\* a tag ref), the repository URL filtered, the workspace path expanded,
\* every other key verbatim.
C1_UserValueWins ==
    /\ pc = "merged" => \A k \in UserKeys : tags[k] = user_specified_git_info[k]
    /\ pc = "returned" =>
        \A k \in UserKeys :
            LET v == user_specified_git_info[k]
            IN  CASE k = BRANCH ->
                        IF is_ref_a_tag(v) THEN BRANCH \notin DOMAIN result
                        ELSE k \in DOMAIN result /\ result[k] = normalize_ref(v)
                  [] k = TAG -> k \in DOMAIN result /\ result[k] = normalize_ref(v)
                  [] k = REPOSITORY_URL ->
                        k \in DOMAIN result /\ result[k] = _filter_sensitive_info(v)
                  [] k = WORKSPACE_PATH ->
                        k \in DOMAIN result /\ result[k] = expanduser(v)
                  [] OTHER -> k \in DOMAIN result /\ result[k] = v

\* A call returned the user's repository URL, filtered, although the
\* provider had given another one.
C1_Witness ==
    /\ pc = "returned"
    /\ Get(user_specified_git_info, REPOSITORY_URL) = <<"h","t","t","p","s",":","/","/","u","s","e","r",":","p","a","s","s","@","h","o","s","t","/","p","a","t","h">>
    /\ Get(ProviderTags(env).value, REPOSITORY_URL) = <<"s","s","h",":","/","/","u","s","e","r",":","p","a","s","s","@","h","o","s","t","/","p","a","t","h">>
    /\ result[REPOSITORY_URL] = <<"h","t","t","p","s",":","/","/","h","o","s","t","/","p","a","t","h">>

\* C2 as written: a failure of the git collaborator never makes tags()
\* raise.
C2_GitFailureNotFatal ==
    ~(pc = "raised" /\ error.at = "extract_git_metadata")

\* C3 as written: no returned value is None or the empty string.
C3_NoEmptyValues ==
    pc = "returned" => \A k \in DOMAIN result : Truthy(result[k])

\* C3, amended: no returned value is None; a value may be the empty string.
C3_NoNoneValues ==
    pc = "returned" => \A k \in DOMAIN result : result[k] # None

\* A call dropped a key whose value was None and returned one whose value
\* is the empty string.
C3_Witness ==
    /\ pc = "returned"
    /\ \E k \in DOMAIN tags : tags[k] = None /\ k \notin DOMAIN result
    /\ \E k \in DOMAIN result : result[k] = <<>>

\* C4 as written: no provider extractor ever raises.
C4_ExtractorsNeverRaise ==
    ~(pc = "raised" /\ error.at = "extractor")

\* The tags an extractor composes from several variables (or from a
\* variable and fixed text), each with the variables it is composed from,
\* in registry order.
Composed ==
    << {<<PIPELINE_URL, {"APPVEYOR_REPO_NAME", "APPVEYOR_BUILD_ID"}>>,
        <<JOB_URL, {"APPVEYOR_REPO_NAME", "APPVEYOR_BUILD_ID"}>>,
        <<REPOSITORY_URL, {"APPVEYOR_REPO_PROVIDER", "APPVEYOR_REPO_NAME"}>>},
       {<<PIPELINE_URL, {"SYSTEM_TEAMFOUNDATIONSERVERURI", "SYSTEM_TEAMPROJECTID",
                         "BUILD_BUILDID"}>>,
        <<JOB_URL, {"SYSTEM_TEAMFOUNDATIONSERVERURI", "SYSTEM_TEAMPROJECTID",
                    "BUILD_BUILDID", "SYSTEM_JOBID", "SYSTEM_TASKINSTANCEID"}>>},
       {<<PIPELINE_URL, {"BITBUCKET_REPO_FULL_NAME", "BITBUCKET_BUILD_NUMBER"}>>,
        <<JOB_URL, {"BITBUCKET_REPO_FULL_NAME", "BITBUCKET_BUILD_NUMBER"}>>},
       {<<JOB_URL, {"BUILDKITE_BUILD_URL", "BUILDKITE_JOB_ID"}>>},
       {<<PIPELINE_URL, {"CIRCLE_WORKFLOW_ID"}>>},
       {<<PIPELINE_URL, {"GITHUB_SERVER_URL", "GITHUB_REPOSITORY", "GITHUB_RUN_ID"}>>,
        <<JOB_URL, {"GITHUB_SERVER_URL", "GITHUB_REPOSITORY", "GITHUB_SHA"}>>,
        <<REPOSITORY_URL, {"GITHUB_SERVER_URL", "GITHUB_REPOSITORY"}>>},
       {},
       {},
       {<<PIPELINE_URL, {"SERVER_URL", "BUILD_ID"}>>},
       {<<REPOSITORY_URL, {"TRAVIS_REPO_SLUG"}>>},
       {},
       {<<PIPELINE_ID, {"BUDDY_PIPELINE_ID", "BUDDY_EXECUTION_ID"}>>} >>

\* C5 as written: in the result of the extractor that ran, a composed tag
\* one of whose variables is missing from env is None.
C5_MissingVariableGivesNone ==
    (pc = "extracted" /\ Present(env) # {}) =>
        \A c \in Composed[Selected(env)] :
            ~(c[2] \subseteq DOMAIN env) => tags[c[1]] = None

\* The fixed identifier each extractor gives as ci.provider.name, in
\* registry order.
ProviderIds ==
    <<<<"a","p","p","v","e","y","o","r">>, <<"a","z","u","r","e","p","i","p","e","l","i","n","e","s">>, <<"b","i","t","b","u","c","k","e","t">>, <<"b","u","i","l","d","k","i","t","e">>, <<"c","i","r","c","l","e","c","i">>,
      <<"g","i","t","h","u","b">>, <<"g","i","t","l","a","b">>, <<"j","e","n","k","i","n","s">>, <<"t","e","a","m","c","i","t","y">>, <<"t","r","a","v","i","s","c","i">>, <<"b","i","t","r","i","s","e">>,
      <<"b","u","d","d","y">>>>

\* Entry i of PROVIDERS is the first whose sentinel is a key of env.
IsFirst(i) ==
    /\ PROVIDERS[i] \in DOMAIN env
    /\ \A j \in 1..(i - 1) : PROVIDERS[j] \notin DOMAIN env

\* C6: exactly the extractor of the first sentinel that is a key of env
\* runs, whatever the sentinel's value and however many sentinels are set,
\* and the returned ci.provider.name is that provider's identifier; with no
\* sentinel no extractor runs and ci.provider.name is absent.
C6_FirstSentinelSelects ==
    LET none == \A i \in 1..Len(PROVIDERS) : PROVIDERS[i] \notin DOMAIN env
    IN  /\ pc = "extracted" =>
            IF none THEN tags = Empty
            ELSE \E i \in 1..Len(PROVIDERS) :
                    IsFirst(i) /\ tags = Extract(i, env).value
        /\ pc = "returned" =>
            IF none THEN PROVIDER_NAME \notin DOMAIN result
            ELSE \E i \in 1..Len(PROVIDERS) :
                    /\ IsFirst(i)
                    /\ PROVIDER_NAME \in DOMAIN result
                    /\ result[PROVIDER_NAME] = ProviderIds[i]

\* A call returned with two sentinels set, the first of them to the empty
\* string.
C6_Witness ==
    /\ pc = "returned"
    /\ \E i, j \in 1..Len(PROVIDERS) :
          /\ i < j
          /\ IsFirst(i)
          /\ env[PROVIDERS[i]] = <<>>
          /\ PROVIDERS[j] \in DOMAIN env
          /\ result[PROVIDER_NAME] = ProviderIds[i]

\* C7: after the merge, a key git returned (the workspace path included)
\* that the user did not override holds the provider's value when that is
\* truthy, and git's value when the provider's is missing, None or empty.
C7_ProviderThenGit ==
    pc = "merged" =>
        \A k \in DOMAIN git_info \ DOMAIN user_specified_git_info :
            LET base == ProviderTags(env).value
            IN  tags[k] = IF Truthy(Get(base, k)) THEN base[k] ELSE git_info[k]

\* A merge kept the provider's commit although git had another one, and
\* took git's workspace path where the provider's was the empty string.
C7_Witness ==
    /\ pc = "merged"
    /\ user_specified_git_info = Empty
    /\ LET base == ProviderTags(env).value
       IN  /\ Truthy(Get(base, COMMIT_SHA))
           /\ Truthy(Get(git_info, COMMIT_SHA))
           /\ git_info[COMMIT_SHA] # base[COMMIT_SHA]
           /\ tags[COMMIT_SHA] = base[COMMIT_SHA]
           /\ Get(base, WORKSPACE_PATH) = <<>>
           /\ Truthy(Get(git_info, WORKSPACE_PATH))
           /\ tags[WORKSPACE_PATH] = git_info[WORKSPACE_PATH]

\* C8: when the merged branch is a tag ref and no source set a tag, the
\* returned mapping has no branch, and its tag is the ref-normalized branch.
C8_TagRefBecomesTag ==
    (pc = "returned" /\ is_ref_a_tag(Get(Merged, BRANCH)) /\ ~Truthy(Get(Merged, TAG))) =>
            /\ BRANCH \notin DOMAIN result
            /\ TAG \in DOMAIN result
            /\ result[TAG] = normalize_ref(Merged[BRANCH])

\* A call whose provider reported the branch refs/tags/v1.0 and no tag
\* returned the tag v1.0 and no branch.
C8_Witness ==
    /\ pc = "returned"
    /\ Get(ProviderTags(env).value, BRANCH) = <<"r","e","f","s","/","t","a","g","s","/","v","1",".","0">>
    /\ ~Truthy(Get(Merged, TAG))
    /\ BRANCH \notin DOMAIN result
    /\ result[TAG] = <<"v","1",".","0">>

\* The URL holds credentials: after "://" an "@" comes before any "/".
HasUserinfo(url) ==
    \E i \in 2..Len(url) : StartsWithAt(url, <<":","/","/">>, i) /\ AtSigns(url, i + 3) # {}

\* C9 as written: no returned repository URL holds credentials.
C9_NoCredentials ==
    (pc = "returned" /\ REPOSITORY_URL \in DOMAIN result) =>
        ~HasUserinfo(result[REPOSITORY_URL])

C11_RuntimeKeysFromPlatform ==
    pc = "returned" =>
        /\ {OS_ARCHITECTURE, OS_PLATFORM, OS_VERSION, RUNTIME_NAME, RUNTIME_VERSION}
               \subseteq DOMAIN result
        /\ \A k \in RuntimeKeys : result[k] = _get_runtime_and_os_metadata[k]

\* A call with a provider, git metadata and a user value has returned the
\* platform's operating system release.
C11_Witness ==
    /\ pc = "returned"
    /\ Selected(env) # 0
    /\ \E k \in DOMAIN git_info : Truthy(git_info[k])
    /\ UserKeys # {}
    /\ OS_VERSION \in DOMAIN result
    /\ result[OS_VERSION] = _get_runtime_and_os_metadata[OS_VERSION]

\* C12: a second call of tags() with the same env and cwd, the git
\* collaborator answering the same, ends as the first did (the same mapping
\* returned, or the same exception raised), and no step of a call changes
\* env or what the collaborator answers.
C12_SecondCallSameOutput ==
    /\ [](previous.pc # "none" /\ pc \in {"returned", "raised"}
            => /\ pc = previous.pc
               /\ result = previous.result
               /\ error = previous.error)
    /\ [][env' = env /\ repo' = repo]_vars

\* A second call with a provider and a user value has returned the mapping
\* the first call returned.
C12_Witness ==
    /\ previous.pc = "returned"
    /\ pc = "returned"
    /\ result = previous.result
    /\ Selected(env) # 0
    /\ UserKeys # {}

\* C13: when the merged branch is a tag ref and the merged tag is truthy,
\* the mapping tags() returns has no branch key and its tag is the merged
\* tag, ref-normalized, whatever the branch normalizes to.
C13_ExistingTagKept ==
    (pc = "returned" /\ is_ref_a_tag(Get(Merged, BRANCH)) /\ Truthy(Get(Merged, TAG)))
        => /\ BRANCH \notin DOMAIN result
           /\ TAG \in DOMAIN result
           /\ result[TAG] = normalize_ref(Merged[TAG])

\* A call whose merged branch is a tag ref and whose merged tag names
\* another tag has returned the merged tag's name.
C13_Witness ==
    /\ pc = "returned"
    /\ is_ref_a_tag(Get(Merged, BRANCH))
    /\ Truthy(Get(Merged, TAG))
    /\ normalize_ref(Merged[TAG]) # normalize_ref(Merged[BRANCH])
    /\ BRANCH \notin DOMAIN result
    /\ result[TAG] = normalize_ref(Merged[TAG])

\* The mapping extract_github_actions returned has the pipeline URL and
\* the env_vars payload that e asks for: the URL ends with /attempts/<n>
\* exactly when GITHUB_RUN_ATTEMPT is set and not empty, the payload names
\* GITHUB_RUN_ATTEMPT last exactly when the variable is a key of e.
GithubUrlAndPayload(e, t) ==
    LET runs == Fmt(Get(e, "GITHUB_SERVER_URL")) \o <<"/">>
                \o Fmt(Get(e, "GITHUB_REPOSITORY")) \o <<"/","a","c","t","i","o","n","s","/","r","u","n","s","/">>
                \o Fmt(Get(e, "GITHUB_RUN_ID"))
        attempt == Get(e, "GITHUB_RUN_ATTEMPT")
        three == <<"{","\"","G","I","T","H","U","B","_","S","E","R","V","E","R","_","U","R","L","\"",":">> \o JsonValue(Get(e, "GITHUB_SERVER_URL"))
                 \o <<",","\"","G","I","T","H","U","B","_","R","E","P","O","S","I","T","O","R","Y","\"",":">> \o JsonValue(Get(e, "GITHUB_REPOSITORY"))
                 \o <<",","\"","G","I","T","H","U","B","_","R","U","N","_","I","D","\"",":">> \o JsonValue(Get(e, "GITHUB_RUN_ID"))
    IN  /\ t[PIPELINE_URL] = IF attempt # None /\ attempt # <<>>
                              THEN runs \o <<"/","a","t","t","e","m","p","t","s","/">> \o attempt
                              ELSE runs
        /\ t[_CI_ENV_VARS] = IF "GITHUB_RUN_ATTEMPT" \in DOMAIN e
                              THEN three \o <<",","\"","G","I","T","H","U","B","_","R","U","N","_","A","T","T","E","M","P","T","\"",":">>
                                   \o JsonValue(e["GITHUB_RUN_ATTEMPT"]) \o <<"}">>
                              ELSE three \o <<"}">>

\* C14: extract_github_actions composes the pipeline URL
\* <server>/<repo>/actions/runs/<run id>, with /attempts/<n> exactly when
\* GITHUB_RUN_ATTEMPT is not empty, and serializes the env_vars payload with
\* the keys GITHUB_SERVER_URL, GITHUB_REPOSITORY, GITHUB_RUN_ID and then
\* GITHUB_RUN_ATTEMPT, the last whenever the variable is in env, even empty;
\* tags() returns both as the extractor made them.
C14_GithubUrlAndPayload ==
    (Selected(env) # 0 /\ PROVIDERS[Selected(env)] = "GITHUB_SHA")
        => /\ pc = "extracted" => GithubUrlAndPayload(env, tags)
           /\ pc = "returned" => GithubUrlAndPayload(env, result)

\* GitHub Actions with GITHUB_RUN_ATTEMPT set to the empty string and a run
\* id: the URL has no attempt, the payload names GITHUB_RUN_ATTEMPT.
C14_Witness ==
    /\ pc = "extracted"
    /\ Selected(env) # 0
    /\ PROVIDERS[Selected(env)] = "GITHUB_SHA"
    /\ Get(env, "GITHUB_RUN_ATTEMPT") = <<>>
    /\ Truthy(Get(env, "GITHUB_RUN_ID"))
    /\ ~Contains(tags[PIPELINE_URL], <<"/","a","t","t","e","m","p","t","s","/">>)
    /\ Contains(tags[_CI_ENV_VARS], <<",","\"","G","I","T","H","U","B","_","R","U","N","_","A","T","T","E","M","P","T","\"",":","\"","\"","}">>)

=============================================================================
